---- MODULE Spec2Model ----
(***************************************************************************)
(* The Autograd batch-execution interface of PennyLane                     *)
(* (pennylane/interfaces/batch/autograd.py): classification and unwrapping *)
(* of tape parameters, the scoped UnwrapTape context manager, the forward  *)
(* batch execution inside a contextlib.ExitStack, and the vector-Jacobian  *)
(* product grad_fn with its recursive batch execution.                     *)
(***************************************************************************)
EXTENDS Naturals, Integers, Sequences, FiniteSets, TLC

\* ------------------------------------------------------------------ bounds
\* most parameters the tape objects of one run hold together
MaxParams == 2
\* most parameters of the tape handed to a function called directly
MaxTapeParams == 3
\* longest batch handed to the top-level batch_execute
MaxBatch == 2
\* deepest ArrayBox nesting of a tape parameter
MaxDepth == 2
\* most shift tapes one gradient_fn call generates
MaxShift == 2
\* most ArrayBox layers carried by the results of the recursive execution
MaxLayers == 2
\* largest nesting counter _n handed to the top-level batch_execute
MaxN == 2

\* the tape objects the caller built
TapeIds == {1, 2}

VARIABLES
  tape,            \* tape object id -> QuantumTape state (ops' data, _par_info, trainable_params)
  tapes,           \* the `tapes` argument of the top-level batch_execute (tape ids, in order)
  n,               \* the `_n` argument of the top-level batch_execute
  pc,              \* position of the running call
  stack,           \* the ExitStack of the top-level call: the UnwrapTape context managers
                   \* entered, oldest first
  device_calls,    \* every device.batch_execute call so far: its argument as the device saw it
  res,             \* what the last device call gave: the value returned, or the error raised
  pre,             \* `tape` as it was when the top-level batch_execute was called
  closed,          \* every UnwrapTape scope of the top-level call that has exited: the
                   \* tape's state when the scope was entered and when it was left
  grad,            \* locals of grad_fn (reshape_info, gradient_tapes, processing_fns, ...)
  call             \* a direct call of one of the module's functions: argument and value

vars == <<tape, tapes, n, pc, stack, device_calls, res, pre, closed, grad, call>>

\* ------------------------------------------------------------------ values
\* A float or plain NumPy array: no requires_grad attribute, no _value.
Plain(i) == [kind |-> "ndarray", val |-> i, id |-> i]

\* A pennylane.numpy tensor, tagged requires_grad.
Tensor(i, rg) == [kind |-> "tensor", requires_grad |-> rg, val |-> i, id |-> i]

\* Any other object that exposes requires_grad = True and is not numeric
\* for NumPy (neither np.tensor nor ArrayBox).
Object(i) == [kind |-> "object", requires_grad |-> TRUE, val |-> i, id |-> i]

\* An autograd ArrayBox around v.
ArrayBox(v, i) == [kind |-> "ArrayBox", _value |-> v, val |-> v.val, id |-> i]

\* d ArrayBox layers around v; the layers are distinct objects.
RECURSIVE Boxed(_, _)
Boxed(v, d) == IF d = 0 THEN v ELSE ArrayBox(Boxed(v, d - 1), v.id + 100 * d)

\* number of ArrayBox layers of a value
RECURSIVE Layers(_)
Layers(v) == IF v.kind = "ArrayBox" THEN 1 + Layers(v._value) ELSE 0

\* isinstance(p, ArrayBox)
IsArrayBox(p) == p.kind = "ArrayBox"

\* isinstance(t, np.tensor)
IsTensor(t) == t.kind = "tensor"

\* getattr(p, "requires_grad", False)
RequiresGrad(p) == IF "requires_grad" \in DOMAIN p THEN p.requires_grad ELSE FALSE

\* t.numpy(): a new plain array holding the tensor's data
numpy(t) == [kind |-> "ndarray", val |-> t.val, id |-> 0]

\* ------------------------------------------------------------------ tapes
\* The flat parameter list of a tape, read through _par_info
\* (get_trainable_params, first loop).
tape_params(t) ==
  [k \in 1..Len(t._par_info) |-> t.ops[t._par_info[k].op][t._par_info[k].p_idx]]

\* get_trainable_params(tape): <<trainable_params, params>>; the set holds
\* Python (0-based) indices.
get_trainable_params_noboxes(t) ==
  LET params == tape_params(t)
  IN  <<{idx \in 0..(Len(params) - 1) : RequiresGrad(params[idx + 1])}, params>>

get_trainable_params(t) ==
  LET params == tape_params(t)
  IN  <<{idx \in 0..(Len(params) - 1) :
           RequiresGrad(params[idx + 1]) \/ IsArrayBox(params[idx + 1])}, params>>

\* _unwrap_arraybox(arraybox, max_depth=None, _n=0); max_depth = -1 stands
\* for None.  Reading ._value of something that has none raises
\* AttributeError.
AttributeError == [kind |-> "AttributeError"]

RECURSIVE _unwrap_arraybox(_, _, _)
_unwrap_arraybox(arraybox, max_depth, _n) ==
  IF max_depth # -1 /\ _n = max_depth THEN arraybox
  ELSE IF "_value" \notin DOMAIN arraybox THEN AttributeError
  ELSE LET val == arraybox._value
       IN  IF IsArrayBox(val) THEN _unwrap_arraybox(val, max_depth, _n + 1)
           ELSE val

\* convert_to_numpy(tensors)
convert_to_numpy_eager(tensors) ==
  [k \in 1..Len(tensors) |->
     LET t == tensors[k]
     IN  IF IsTensor(t) \/ RequiresGrad(t) THEN numpy(t)
         ELSE IF IsArrayBox(t) THEN _unwrap_arraybox(t, -1, 0)
         ELSE t]

convert_to_numpy(tensors) ==
  [k \in 1..Len(tensors) |->
     LET t == tensors[k]
     IN  IF IsTensor(t) THEN numpy(t)
         ELSE IF IsArrayBox(t) THEN _unwrap_arraybox(t, -1, 0)
         ELSE t]

\* QuantumTape.set_parameters(params, trainable_only=False): every position
\* of the flat parameter list is written into its operation's data.
set_parameters(t, params) ==
  [t EXCEPT !.ops =
     [o \in DOMAIN t.ops |->
        [j \in DOMAIN t.ops[o] |->
           params[CHOOSE k \in 1..Len(t._par_info) :
                    t._par_info[k] = [op |-> o, p_idx |-> j]]]]]

\* UnwrapTape.__init__ followed by __enter__: the context manager and the
\* tape as __enter__ leaves it.
UnwrapTape_enter(t) ==
  LET got == get_trainable_params(t)
      _original_params == got[2]
      _unwrapped_params == convert_to_numpy(_original_params)
  IN  [ctx  |-> [_original_params |-> _original_params,
                 _unwrapped_params |-> _unwrapped_params],
       tape |-> set_parameters([t EXCEPT !.trainable_params = got[1]],
                               _unwrapped_params)]

\* UnwrapTape.__exit__: the tape as __exit__ leaves it.
UnwrapTape_exit_trainable_only(ctx, t) ==
  set_parameters(t, [k \in 1..Len(ctx._original_params) |->
                       IF (k - 1) \in t.trainable_params
                       THEN ctx._original_params[k] ELSE tape_params(t)[k]])

UnwrapTape_exit(ctx, t) == set_parameters(t, ctx._original_params)


\* ------------------------------------------------------------------ Init
\* what the caller may have put at flat position k of its tapes
ParamValues(k) ==
  {Plain(k), Tensor(k, TRUE), Tensor(k, FALSE), Object(k)}
    \cup {Boxed(Plain(k), 1)}
    \cup {Boxed(Tensor(k, TRUE), d) : d \in 1..MaxDepth}

\* sequences of length len whose k-th entry is in values[off + k]
RECURSIVE ParamLists(_, _, _)
ParamLists(values, off, len) ==
  IF len = 0 THEN {<<>>}
  ELSE {Append(l, v) : l \in ParamLists(values, off, len - 1), v \in values[off + len]}

\* A QuantumTape holding vals.  Its first two parameters belong to one
\* two-parameter operation, every further operation has one parameter.
MkTape(vals, tp) ==
  IF Len(vals) >= 2
  THEN [ops |-> [o \in 1..(Len(vals) - 1) |->
                   IF o = 1 THEN <<vals[1], vals[2]>> ELSE <<vals[o + 1]>>],
        _par_info |-> [k \in 1..Len(vals) |->
                         IF k <= 2 THEN [op |-> 1, p_idx |-> k]
                         ELSE [op |-> k - 1, p_idx |-> 1]],
        trainable_params |-> tp]
  ELSE [ops |-> [o \in 1..Len(vals) |-> <<vals[o]>>],
        _par_info |-> [k \in 1..Len(vals) |-> [op |-> k, p_idx |-> 1]],
        trainable_params |-> tp]

\* all sequences over S of length at most len
SeqsUpTo(S, len) == UNION {[1..l -> S] : l \in 0..len}

None == [kind |-> "NoneType"]

NoGrad ==
  [shifts |-> <<>>, reshape_info |-> <<>>, gradient_tapes |-> <<>>,
   processing_fns |-> <<>>, gradient_fn_calls |-> <<>>, results |-> <<>>,
   layers |-> 0, slices |-> <<>>, vjp |-> <<>>, out |-> None]

\* what is the same in every initial state: nothing has been called yet
Idle ==
  /\ pc = "idle"
  /\ stack = <<>>
  /\ device_calls = <<>>
  /\ res = None
  /\ pre = tape
  /\ closed = <<>>
  /\ grad = NoGrad
  /\ call = None

\* Two tape objects holding at most MaxParams parameters together, of any
\* kind, with any earlier trainable_params; the batch may be empty and may
\* name a tape object more than once.  _n has its default, 1.
Init ==
  /\ \E l1 \in 0..MaxParams :
       \E l2 \in 0..(MaxParams - l1) :
         \E v1 \in ParamLists([k \in 1..MaxParams |-> ParamValues(k)], 0, l1),
                   v2 \in ParamLists([k \in 1..MaxParams |-> ParamValues(k)], l1, l2) :
           \E tp1 \in SUBSET (0..(l1 - 1)), tp2 \in SUBSET (0..(l2 - 1)) :
             tape = (1 :> MkTape(v1, tp1)) @@ (2 :> MkTape(v2, tp2))
  /\ tapes \in SeqsUpTo(TapeIds, MaxBatch)
  /\ n = 1
  /\ Idle

\* ------------------------------------------------------------------ forward pass
ValueError == [kind |-> "error", type |-> "ValueError"]

\* Whether batch_execute turns its `tapes` argument down as invalid input:
\* lines 226-234 look at no property of `tapes`, an empty list included.
invalid_input_if_empty(ts) == ts = <<>>

invalid_input(ts) == FALSE

\* batch_execute(tapes, device, gradient_fn, cache, _n): builds `parameters`
\* from the tapes (no state is changed) and enters _batch_execute.
batch_execute ==
  /\ pc = "idle"
  /\ pc' = IF invalid_input(tapes) THEN "raised" ELSE "with"
  /\ res' = IF invalid_input(tapes) THEN ValueError ELSE res
  /\ pre' = tape
  /\ UNCHANGED <<tape, tapes, n, stack, device_calls, closed, grad, call>>

\* stack.enter_context(UnwrapTape(t)) for the next t of the list comprehension
enter_context ==
  /\ pc = "with"
  /\ Len(stack) < Len(tapes)
  /\ LET t == tapes[Len(stack) + 1]
         r == UnwrapTape_enter(tape[t])
     IN  /\ tape' = [tape EXCEPT ![t] = r.tape]
         /\ stack' = Append(stack, [tape |-> t, ctx |-> r.ctx, entry |-> tape[t]])
  /\ UNCHANGED <<tapes, n, pc, device_calls, res, pre, closed, grad, call>>

\* unwrapped_tapes, the list the comprehension built
unwrapped_tapes == [k \in 1..Len(stack) |-> stack[k].tape]

\* what the device sees of its argument in the top-level call
DeviceView(ts) ==
  [depth |-> 0, tapes |-> ts,
   params |-> [k \in 1..Len(ts) |-> tape_params(tape[ts[k]])]]

\* The device's answer: one result per tape handed over, in that order.
\* The autograd primitive boxes the results of a traced execution in
\* `layers` ArrayBox layers.
Results(ts, layers) ==
  [k \in 1..Len(ts) |-> [kind |-> "result", of |-> ts[k], layers |-> layers]]

DeviceError == [kind |-> "error", type |-> "DeviceError"]

\* res = device.batch_execute(unwrapped_tapes) returns
device_returns ==
  /\ pc = "with"
  /\ Len(stack) = Len(tapes)
  /\ device_calls' = Append(device_calls, DeviceView(unwrapped_tapes))
  /\ res' = [kind |-> "ok", results |-> Results(unwrapped_tapes, 0)]
  /\ pc' = "exit"
  /\ UNCHANGED <<tape, tapes, n, stack, pre, closed, grad, call>>

\* device.batch_execute(unwrapped_tapes) raises
device_raises ==
  /\ pc = "with"
  /\ Len(stack) = Len(tapes)
  /\ device_calls' = Append(device_calls, DeviceView(unwrapped_tapes))
  /\ res' = DeviceError
  /\ pc' = "exit"
  /\ UNCHANGED <<tape, tapes, n, stack, pre, closed, grad, call>>

\* contextlib.ExitStack closes the context managers last in, first out:
\* the index of the one to close next
ExitStack_fifo(s) == 1

ExitStack_next(s) == Len(s)

\* ExitStack.__exit__ calls the next UnwrapTape.__exit__
exit_context ==
  /\ pc = "exit"
  /\ stack # <<>>
  /\ LET k == ExitStack_next(stack)
         c == stack[k]
         after == UnwrapTape_exit(c.ctx, tape[c.tape])
     IN  /\ tape' = [tape EXCEPT ![c.tape] = after]
         /\ stack' = [j \in 1..(Len(stack) - 1) |-> IF j < k THEN stack[j] ELSE stack[j + 1]]
         /\ closed' = Append(closed, [tape |-> c.tape, entry |-> c.entry, exit |-> after])
  /\ UNCHANGED <<tapes, n, pc, device_calls, res, pre, grad, call>>

\* the with block is left: _batch_execute returns res, or the device's
\* error goes on to the caller
leave_with ==
  /\ pc = "exit"
  /\ stack = <<>>
  /\ pc' = IF res.kind = "ok" THEN "returned" ELSE "raised"
  /\ UNCHANGED <<tape, tapes, n, stack, device_calls, res, pre, closed, grad, call>>

Forward ==
  \/ batch_execute
  \/ enter_context
  \/ device_returns
  \/ device_raises
  \/ exit_context
  \/ leave_with

Spec == Init /\ [][Forward]_vars

\* ------------------------------------------------------------------ backward pass
\* iteration order of a tape's trainable_params set (small integers:
\* ascending)
TrainableOrder(tp) ==
  [k \in 1..Cardinality(tp) |-> CHOOSE x \in tp : Cardinality({y \in tp : y < x}) = k - 1]

\* every (tape, parameter index) a gradient function may be asked about
GradPairs == {<<t, idx>> \in TapeIds \X (0..(MaxParams - 1)) :
                /\ \E p \in 1..Len(tapes) : tapes[p] = t
                /\ idx < Len(tape[t]._par_info)}

\* gradient_fn(t, idx): the shift tapes (new tape objects, parameters of the
\* kinds of t's) and the post-processing function.  `shifts` says how many
\* shift tapes the pluggable function generates for each pair; c numbers
\* the call, so that every call's tapes are objects of their own.
gradient_fn(shifts, t, idx, c) ==
  [g_tapes |-> [j \in 1..shifts[<<t, idx>>] |->
                  [id |-> [call |-> c, src |-> t, idx |-> idx, shift |-> j],
                   tape |-> tape[t]]],
   fn |-> [call |-> c, tape |-> t, idx |-> idx]]

\* the second argument handed to gradient_fn in the k-th iteration over
\* `order`: `for idx, _ in enumerate(t.trainable_params)`
member_index(order, k) == order[k]

enumerate_index(order, k) == k - 1

\* lines 314-319: the loop over one tape's trainable parameters
RECURSIVE gen_inner(_, _, _, _, _)
gen_inner(shifts, t, order, k, acc) ==
  IF k > Len(order) THEN acc
  ELSE LET idx == enumerate_index(order, k)
           g == gradient_fn(shifts, t, idx, Len(acc.gradient_fn_calls) + 1)
       IN  gen_inner(shifts, t, order, k + 1,
             [acc EXCEPT !.reshape_info = Append(@, Len(g.g_tapes)),
                         !.gradient_tapes = @ \o g.g_tapes,
                         !.processing_fns[Len(acc.processing_fns)] = Append(@, g.fn),
                         !.gradient_fn_calls = Append(@, <<t, idx>>)])

\* lines 311-319: the loop over the tapes
RECURSIVE gen_outer(_, _, _)
gen_outer(shifts, p, acc) ==
  IF p > Len(tapes) THEN acc
  ELSE gen_outer(shifts, p + 1,
         gen_inner(shifts, tapes[p], TrainableOrder(tape[tapes[p]].trainable_params), 1,
                   [acc EXCEPT !.processing_fns = Append(@, <<>>)]))

\* grad_fn(dy), lines 307-319: the gradient tapes are generated
grad_fn_generate ==
  /\ pc = "returned"
  /\ \E shifts \in [GradPairs -> 0..MaxShift] :
       grad' = gen_outer(shifts, 1, [NoGrad EXCEPT !.shifts = shifts])
  /\ pc' = "grad_execute"
  /\ UNCHANGED <<tape, tapes, n, stack, device_calls, res, pre, closed, call>>

\* The recursive batch_execute(gradient_tapes, device, _n=_n + 1) of line
\* 321: every gradient tape is entered, the device is called on them, every
\* gradient tape is left again.
grad_entered == [k \in 1..Len(grad.gradient_tapes) |-> UnwrapTape_enter(grad.gradient_tapes[k].tape)]

grad_device_view ==
  [depth |-> 1, tapes |-> [k \in 1..Len(grad.gradient_tapes) |-> grad.gradient_tapes[k].id],
   params |-> [k \in 1..Len(grad.gradient_tapes) |-> tape_params(grad_entered[k].tape)]]

grad_left ==
  [k \in 1..Len(grad.gradient_tapes) |->
     [grad.gradient_tapes[k] EXCEPT
        !.tape = UnwrapTape_exit(grad_entered[k].ctx, grad_entered[k].tape)]]

\* ... and the device returns
grad_execute_returns ==
  /\ pc = "grad_execute"
  /\ ~invalid_input(grad.gradient_tapes)
  /\ device_calls' = Append(device_calls, grad_device_view)
  /\ \E layers \in 0..MaxLayers :
       grad' = [grad EXCEPT !.gradient_tapes = grad_left,
                            !.results = Results(grad_device_view.tapes, layers),
                            !.layers = layers]
  /\ pc' = "grad_reduce"
  /\ UNCHANGED <<tape, tapes, n, stack, res, pre, closed, call>>

\* ... and the device raises: the error leaves grad_fn
grad_execute_raises ==
  /\ pc = "grad_execute"
  /\ IF invalid_input(grad.gradient_tapes)
     THEN /\ grad' = [grad EXCEPT !.out = ValueError]
          /\ UNCHANGED device_calls
     ELSE /\ device_calls' = Append(device_calls, grad_device_view)
          /\ grad' = [grad EXCEPT !.gradient_tapes = grad_left, !.out = DeviceError]
  /\ pc' = "grad_raised"
  /\ UNCHANGED <<tape, tapes, n, stack, res, pre, closed, call>>

\* results[start : start + res_len], with Python's clipping
Slice(results, start, res_len) ==
  LET last == IF start + res_len <= Len(results) THEN start + res_len ELSE Len(results)
  IN  [k \in 1..(IF last > start THEN last - start ELSE 0) |-> results[start + k]]

\* the res_len paired with the j-th post-processing function of the tape at
\* position p by `zip(processing_fns[t], reshape_info)`
res_len_zip(p, j, reshape_info, processing_fns) == reshape_info[j]

\* a gradient vector of length len
Vector(len) == [kind |-> "vector", len |-> len, val |-> 0, id |-> 0]

\* lines 333-339: the loop over one tape's post-processing functions
RECURSIVE red_inner(_, _, _)
red_inner(p, j, st) ==
  IF j > Len(grad.processing_fns[p]) \/ j > Len(grad.reshape_info) THEN st
  ELSE LET res_len == res_len_zip(p, j, grad.reshape_info, grad.processing_fns)
           r == Slice(grad.results, st.start, res_len)
       IN  red_inner(p, j + 1,
             [st EXCEPT !.start = @ + res_len,
                        !.slices = Append(@, [fn |-> grad.processing_fns[p][j], res |-> r])])

\* lines 325-344: the loop over the tapes, dy holding one row per tape
RECURSIVE red_outer(_, _)
red_outer(p, st) ==
  IF p > Len(tapes) THEN st
  ELSE LET num_params == Cardinality(tape[tapes[p]].trainable_params)
       IN  IF num_params = 0
           THEN red_outer(p + 1, [st EXCEPT !.vjp = Append(@, None)])
           ELSE LET s2 == red_inner(p, 1, st)
                IN  red_outer(p + 1,
                      [s2 EXCEPT !.vjp = Append(@, Boxed(Vector(num_params), grad.layers))])

\* grad_fn(dy), lines 322-346: the results are sliced and contracted, and
\* line 346 unwraps every entry to depth _n; an AttributeError leaves grad_fn
grad_fn_reduce ==
  /\ pc = "grad_reduce"
  /\ LET st == red_outer(1, [vjp |-> <<>>, start |-> 0, slices |-> <<>>])
         out == [k \in 1..Len(st.vjp) |-> _unwrap_arraybox(st.vjp[k], n, 0)]
         failed == \E k \in 1..Len(out) : out[k] = AttributeError
     IN  /\ grad' = [grad EXCEPT !.vjp = st.vjp, !.slices = st.slices,
                                 !.out = IF failed THEN AttributeError
                                         ELSE [kind |-> "ok", value |-> out]]
         /\ pc' = IF failed THEN "grad_raised" ELSE "grad_returned"
  /\ UNCHANGED <<tape, tapes, n, stack, device_calls, res, pre, closed, call>>

Backward ==
  \/ grad_fn_generate
  \/ grad_execute_returns
  \/ grad_execute_raises
  \/ grad_fn_reduce

\* what a traced execution puts at flat position k: a plain value or a
\* boxed trainable tensor
GradValues(k) == {Plain(k), Boxed(Tensor(k, TRUE), 1)}

\* As Init, with parameters that are plain or boxed trainable tensors, the
\* trainable_params a new tape has (every index), and any _n.
InitGrad ==
  /\ \E l1 \in 0..MaxParams :
       \E l2 \in 0..(MaxParams - l1) :
         \E v1 \in ParamLists([k \in 1..MaxParams |-> GradValues(k)], 0, l1),
                   v2 \in ParamLists([k \in 1..MaxParams |-> GradValues(k)], l1, l2) :
           tape = (1 :> MkTape(v1, 0..(l1 - 1))) @@ (2 :> MkTape(v2, 0..(l2 - 1)))
  /\ tapes \in SeqsUpTo(TapeIds, MaxBatch)
  /\ n \in 1..MaxN
  /\ Idle

Next == Forward \/ Backward

SpecGrad == InitGrad /\ [][Next]_vars

\* ------------------------------------------------------------------ direct calls
\* what may stand at position k of a tape handed to a function directly
PureValues(k) ==
  {Plain(k), Tensor(k, TRUE), Tensor(k, FALSE), Object(k)}
    \cup {Boxed(Plain(k), d) : d \in 1..MaxDepth}
    \cup {Boxed(Tensor(k, TRUE), d) : d \in 1..MaxDepth}

\* One tape of at most MaxTapeParams parameters of any kind, with any
\* earlier trainable_params.
InitPure ==
  /\ \E l1 \in 0..MaxTapeParams :
       \E v1 \in ParamLists([k \in 1..MaxTapeParams |-> PureValues(k)], 0, l1) :
         \E tp1 \in {{}, 0..(l1 - 1)} :
           tape = (1 :> MkTape(v1, tp1)) @@ (2 :> MkTape(<<>>, {}))
  /\ tapes = <<>>
  /\ n = 1
  /\ Idle

\* trainable_params, params = get_trainable_params(tape)
call_get_trainable_params ==
  /\ pc = "idle"
  /\ call = None
  /\ call' = [kind |-> "get_trainable_params", tape |-> tape[1],
              value |-> get_trainable_params(tape[1])]
  /\ UNCHANGED <<tape, tapes, n, pc, stack, device_calls, res, pre, closed, grad>>

\* convert_to_numpy(params) on the tape's parameter list
call_convert_to_numpy ==
  /\ pc = "idle"
  /\ call = None
  /\ call' = [kind |-> "convert_to_numpy", tensors |-> tape_params(tape[1]),
              value |-> convert_to_numpy(tape_params(tape[1]))]
  /\ UNCHANGED <<tape, tapes, n, pc, stack, device_calls, res, pre, closed, grad>>

Direct ==
  \/ call_get_trainable_params
  \/ call_convert_to_numpy

SpecPure == InitPure /\ [][Direct]_vars

\* ------------------------------------------------------------------ Molecule
\* the largest number of atoms of a molecule
MaxAtoms == 2

\* the atomic symbols a caller may pass: those of the tests' molecules
Symbols == {"H", "O", "F", "Og"}

\* the basis set names a caller may pass
BasisNames == {"sto-3g", "6-31g"}

\* the supported-element set with the nuclear charge of each element
atomic_numbers == [s \in {"H", "O", "F"} |-> CASE s = "H" -> 1 [] s = "O" -> 8 [] s = "F" -> 9]

\* the validation errors of Molecule
BasisError ==
  [kind |-> "error", type |-> "ValueError",
   message |-> "Currently, the only supported basis set is 'sto-3g'."]

SymbolError(atoms) ==
  [kind |-> "error", type |-> "ValueError",
   message |-> "are not supported", atoms |-> atoms]

\* Molecule(symbols, coordinates, charge, mult, basis_name): the outcomes
\* the construction may have.  The coordinates take no part in the
\* validation and are left out.  Which check comes first when both inputs
\* are invalid is not fixed, so both errors are possible then.
Molecule_any_basis(symbols, charge, mult, basis_name) ==
  LET unsupported == {symbols[k] : k \in 1..Len(symbols)} \ DOMAIN atomic_numbers
  IN  IF unsupported # {} THEN {SymbolError(unsupported)}
      ELSE {[kind |-> "Molecule", symbols |-> symbols, charge |-> charge,
             mult |-> mult, basis_name |-> basis_name,
             nuclear_charges |-> [k \in 1..Len(symbols) |-> atomic_numbers[symbols[k]]]]}

Molecule(symbols, charge, mult, basis_name) ==
  LET unsupported == {symbols[k] : k \in 1..Len(symbols)} \ DOMAIN atomic_numbers
  IN  IF basis_name # "sto-3g" \/ unsupported # {}
      THEN (IF basis_name # "sto-3g" THEN {BasisError} ELSE {})
             \cup (IF unsupported # {} THEN {SymbolError(unsupported)} ELSE {})
      ELSE {[kind |-> "Molecule", symbols |-> symbols, charge |-> charge,
             mult |-> mult, basis_name |-> basis_name,
             nuclear_charges |-> [k \in 1..Len(symbols) |-> atomic_numbers[symbols[k]]]]}

\* The arguments of one construction: one to MaxAtoms symbols, a charge, a
\* multiplicity and a basis set name (0, 1 and "sto-3g" are the defaults).
InitMol ==
  /\ tape = (1 :> MkTape(<<>>, {})) @@ (2 :> MkTape(<<>>, {}))
  /\ tapes = <<>>
  /\ n = 1
  /\ pc = "idle"
  /\ stack = <<>>
  /\ device_calls = <<>>
  /\ res = None
  /\ pre = tape
  /\ closed = <<>>
  /\ grad = NoGrad
  /\ \E l \in 1..MaxAtoms : \E symbols \in [1..l -> Symbols] :
       \E charge \in {0, 1}, mult \in {1, 2}, basis_name \in BasisNames :
         call = [kind |-> "args", symbols |-> symbols, charge |-> charge,
                 mult |-> mult, basis_name |-> basis_name]

\* mol = Molecule(symbols, geometry, charge, mult, basis_name)
call_Molecule ==
  /\ call.kind = "args"
  /\ \E out \in Molecule(call.symbols, call.charge, call.mult, call.basis_name) :
       call' = [kind |-> "Molecule()", symbols |-> call.symbols, charge |-> call.charge,
                mult |-> call.mult, basis_name |-> call.basis_name, value |-> out]
  /\ UNCHANGED <<tape, tapes, n, pc, stack, device_calls, res, pre, closed, grad>>

SpecMol == InitMol /\ [][call_Molecule]_vars

\* ------------------------------------------------------------------ properties
\* the positions of a parameter list that hold a value tagged
\* requires_grad = True or an ArrayBox, as Python indices
Trainable(params) ==
  {i \in 0..(Len(params) - 1) :
     \/ params[i + 1].kind = "ArrayBox"
     \/ params[i + 1].kind \in {"tensor", "object"} /\ params[i + 1].requires_grad}

\* neither a differentiable tensor nor a wrapper
IsPlainValue(v) == v.kind \notin {"tensor", "ArrayBox"}

\* C1, as stated: when an UnwrapTape block has exited, the tape's
\* trainable_params and its full parameter list are what they were
\* immediately before the block was entered.
C1_RoundTripRestoresEverything ==
  \A k \in 1..Len(closed) :
    /\ closed[k].exit.trainable_params = closed[k].entry.trainable_params
    /\ tape_params(closed[k].exit) = tape_params(closed[k].entry)

\* C1, amended: when an UnwrapTape block has exited, the tape's full
\* parameter list (every operation's data, the objects themselves) is what
\* it was immediately before the block was entered; its trainable_params
\* is not restored: where no further UnwrapTape block of the same tape was
\* opened inside the block, it is the set of positions whose value at entry
\* was tagged requires_grad = True or was an ArrayBox, whatever it was
\* before.
C1_RoundTripRestoresParameters ==
  \A k \in 1..Len(closed) :
    /\ tape_params(closed[k].exit) = tape_params(closed[k].entry)
    /\ closed[k].exit.ops = closed[k].entry.ops
    /\ closed[k].exit._par_info = closed[k].entry._par_info
    /\ (\A j \in 1..(k - 1) : closed[j].tape # closed[k].tape) =>
         (closed[k].exit.trainable_params = Trainable(tape_params(closed[k].entry)))

\* a block has exited whose tape held a tensor that is not trainable and
\* another trainable value, and whose trainable_params were different before
C1_Witness ==
  \E k \in 1..Len(closed) :
    LET e == closed[k].entry
    IN  /\ \E j \in 1..Len(tape_params(e)) :
             tape_params(e)[j].kind = "tensor" /\ ~tape_params(e)[j].requires_grad
        /\ Trainable(tape_params(e)) # {}
        /\ e.trainable_params # Trainable(tape_params(e))

\* C2: when device.batch_execute has raised, the caller of batch_execute
\* gets that same error after one device call, and every tape then holds
\* its original parameter objects at every position.
C2_DeviceErrorLeavesTapesRestored ==
  (pc = "raised") =>
    /\ res = DeviceError
    /\ Len(device_calls) = 1
    /\ \A t \in TapeIds :
         /\ tape_params(tape[t]) = tape_params(pre[t])
         /\ tape[t].ops = pre[t].ops

\* the device raised on a batch of two tapes that it saw unwrapped, one of
\* them holding a tensor that is not trainable
C2_Witness ==
  /\ pc = "raised"
  /\ Len(tapes) = 2
  /\ device_calls[1].params # [k \in 1..Len(tapes) |-> tape_params(pre[tapes[k]])]
  /\ \E k \in 1..Len(tapes) : \E j \in 1..Len(tape_params(pre[tapes[k]])) :
       LET v == tape_params(pre[tapes[k]])[j]
       IN  v.kind = "tensor" /\ ~v.requires_grad

\* C3: in a forward batch execution the device is called exactly once, on
\* the tapes in input order, every parameter position of every tape then
\* holding an unwrapped plain value; no tape is restored before the device
\* call has returned, and the results come back in tape order.
C3_OneDeviceCallOnPlainTapes ==
  /\ Len(device_calls) <= 1
  /\ (pc \in {"idle", "with"}) => (device_calls = <<>> /\ closed = <<>>)
  /\ (pc \in {"exit", "returned", "raised"}) => (Len(device_calls) = 1)
  /\ \A c \in 1..Len(device_calls) :
       /\ device_calls[c].tapes = tapes
       /\ \A k \in 1..Len(device_calls[c].params) :
            \A j \in 1..Len(device_calls[c].params[k]) :
              IsPlainValue(device_calls[c].params[k][j])
  /\ (pc = "returned") =>
       /\ Len(res.results) = Len(tapes)
       /\ \A k \in 1..Len(tapes) : res.results[k].of = tapes[k]

\* The part of C3 that does not speak of plain values: one device call, on
\* the tapes in input order, no ArrayBox at any position, a tensor only
\* where the caller's value was an ArrayBox around a tensor, no tape
\* restored before the call, results in tape order.
C3_OneDeviceCallInOrder ==
  /\ Len(device_calls) <= 1
  /\ (pc \in {"idle", "with"}) => (device_calls = <<>> /\ closed = <<>>)
  /\ (pc \in {"exit", "returned", "raised"}) => (Len(device_calls) = 1)
  /\ \A c \in 1..Len(device_calls) :
       /\ device_calls[c].tapes = tapes
       /\ \A k \in 1..Len(device_calls[c].params) :
            \A j \in 1..Len(device_calls[c].params[k]) :
              /\ device_calls[c].params[k][j].kind # "ArrayBox"
              /\ (device_calls[c].params[k][j].kind = "tensor") =>
                   /\ tape_params(pre[tapes[k]])[j].kind = "ArrayBox"
                   /\ _unwrap_arraybox(tape_params(pre[tapes[k]])[j], -1, 0).kind = "tensor"
  /\ (pc = "returned") =>
       /\ Len(res.results) = Len(tapes)
       /\ \A k \in 1..Len(tapes) : res.results[k].of = tapes[k]

\* C9, as stated: a tape with a trainable parameter that is not
\* numeric-compatible makes the unwrap step fail with a type error, and the
\* device is not called with that tape.
C9_NonNumericTrainableIsRejected ==
  \A c \in 1..Len(device_calls) : \A k \in 1..Len(device_calls[c].tapes) :
    \A j \in 1..Len(tape_params(pre[device_calls[c].tapes[k]])) :
      tape_params(pre[device_calls[c].tapes[k]])[j].kind # "object"

\* C9, amended: a trainable parameter that is not numeric-compatible (it is
\* neither a tensor nor an ArrayBox) makes no step fail: the unwrap step
\* keeps the object itself at its position, the device is called with it,
\* and the only error a batch execution ends with is the device's.
C9_NonNumericTrainablePassesThrough ==
  /\ \A k \in 1..Len(stack) : \A j \in 1..Len(stack[k].ctx._original_params) :
       (stack[k].ctx._original_params[j].kind = "object") =>
         (stack[k].ctx._unwrapped_params[j] = stack[k].ctx._original_params[j])
  /\ \A c \in 1..Len(device_calls) : \A k \in 1..Len(device_calls[c].tapes) :
       \A j \in 1..Len(tape_params(pre[device_calls[c].tapes[k]])) :
         LET v == tape_params(pre[device_calls[c].tapes[k]])[j]
         IN  (v.kind = "object") => (device_calls[c].params[k][j] = v)
  /\ (pc \in {"exit", "returned", "raised"}) => (Len(device_calls) = 1)
  /\ (pc = "raised") => (res = DeviceError)

\* the device has been called with a tape that holds such an object, which
\* UnwrapTape counted as trainable
C9_Witness ==
  /\ pc = "returned"
  /\ \E k \in 1..Len(tapes) : \E j \in 1..Len(tape_params(pre[tapes[k]])) :
       /\ tape_params(pre[tapes[k]])[j].kind = "object"
       /\ (j - 1) \in tape[tapes[k]].trainable_params
       /\ device_calls[1].params[k][j].kind = "object"

\* ---- the backward pass
RECURSIVE SumUpTo(_, _)
SumUpTo(f, k) == IF k = 0 THEN 0 ELSE f[k] + SumUpTo(f, k - 1)

\* k_p: the number of trainable parameters of the tape at batch position p
NumTrainable(p) == Cardinality(tape[tapes[p]].trainable_params)

\* the number of (tape, trainable parameter) pairs of the batch positions
\* before p
PairsBefore(p) == SumUpTo([q \in 1..Len(tapes) |-> NumTrainable(q)], p - 1)

\* grad_fn has generated the gradient tapes
Generated == pc \in {"grad_execute", "grad_reduce", "grad_returned", "grad_raised"}

\* C4: the slice of the executed results handed to the post-processing
\* function of a (tape, parameter) pair is exactly the results of the shift
\* tapes gradient_fn generated for that pair, of the length recorded for
\* it, one slice per pair.
C4_SlicesAreThePairsResults ==
  (pc = "grad_returned") =>
    /\ Len(grad.slices) = Len(grad.gradient_fn_calls)
    /\ \A k \in 1..Len(grad.slices) :
         LET c == grad.slices[k].fn.call
             OfCall(r) == r.of.call = c
         IN  /\ grad.slices[k].res = SelectSeq(grad.results, OfCall)
             /\ Len(grad.slices[k].res) = grad.reshape_info[c]

\* C5: grad_fn(dy) returns one entry per tape, in input order: None for a
\* tape without trainable parameters, otherwise a gradient vector of length
\* k_p; and it returns for every mix of tapes.
C5_OneGradientPerTape ==
  /\ (pc = "grad_raised") => (grad.out = DeviceError)
  /\ (pc = "grad_returned") =>
       /\ grad.out.kind = "ok"
       /\ Len(grad.out.value) = Len(tapes)
       /\ \A p \in 1..Len(tapes) :
            IF NumTrainable(p) = 0 THEN grad.out.value[p] = None
            ELSE LET v == _unwrap_arraybox(Boxed(grad.out.value[p], 1), -1, 0)
                 IN  v.kind = "vector" /\ v.len = NumTrainable(p)

\* C6, as stated: gradient_fn is called once for every (tape, member of the
\* tape's trainable set), tapes in input order and members in set order,
\* with the member index as second argument.
C6_GradientFnGetsMemberIndex ==
  Generated =>
    /\ Len(grad.gradient_fn_calls) = PairsBefore(Len(tapes) + 1)
    /\ \A p \in 1..Len(tapes) : \A j \in 1..NumTrainable(p) :
         grad.gradient_fn_calls[PairsBefore(p) + j] =
           <<tapes[p], TrainableOrder(tape[tapes[p]].trainable_params)[j]>>

\* C6, amended: gradient_fn is called once for every (tape, member of the
\* tape's trainable set), tapes in input order and members in set order;
\* the second argument is the member's position in that order (0 for the
\* first trainable parameter, 1 for the second, ...), not the member index.
C6_GradientFnGetsPosition ==
  Generated =>
    /\ Len(grad.gradient_fn_calls) = PairsBefore(Len(tapes) + 1)
    /\ \A p \in 1..Len(tapes) : \A j \in 1..NumTrainable(p) :
         grad.gradient_fn_calls[PairsBefore(p) + j] = <<tapes[p], j - 1>>

\* gradient_fn has been called for a tape whose only trainable parameter is
\* its second one
C6_Witness ==
  /\ Generated
  /\ \E p \in 1..Len(tapes) :
       /\ tape[tapes[p]].trainable_params = {1}
       /\ grad.gradient_fn_calls[PairsBefore(p) + 1] = <<tapes[p], 0>>

\* C7, as stated: batch_execute on an empty sequence of tapes fails with an
\* invalid-input error and does not call the device, also when grad_fn calls
\* it with an empty list of gradient tapes.
C7_EmptyBatchIsInvalidInput ==
  /\ \A c \in 1..Len(device_calls) : device_calls[c].tapes # <<>>
  /\ (tapes = <<>> /\ pc # "idle") => (pc = "raised" /\ res = ValueError)
  /\ (grad.gradient_tapes = <<>> /\ pc \in {"grad_reduce", "grad_returned", "grad_raised"}) =>
       (pc = "grad_raised" /\ grad.out = ValueError)

\* C7, amended: batch_execute on an empty sequence of tapes raises no
\* invalid-input error: it enters no UnwrapTape block and calls
\* device.batch_execute once with the empty list, and what the device
\* returns or raises is its outcome; so does the call grad_fn makes with an
\* empty list of gradient tapes.
C7_EmptyBatchReachesDevice ==
  /\ res # ValueError
  /\ grad.out # ValueError
  /\ (tapes = <<>> /\ pc \notin {"idle", "with"}) =>
       /\ Len(device_calls) >= 1
       /\ device_calls[1] = [depth |-> 0, tapes |-> <<>>, params |-> <<>>]
       /\ closed = <<>>
       /\ res \in {[kind |-> "ok", results |-> <<>>], DeviceError}
  /\ (grad.gradient_tapes = <<>> /\ pc \in {"grad_reduce", "grad_returned", "grad_raised"}) =>
       /\ Len(device_calls) = 2
       /\ device_calls[2] = [depth |-> 1, tapes |-> <<>>, params |-> <<>>]
       /\ grad.results = <<>>

\* grad_fn's recursive call has returned from the device for a batch of two
\* tapes none of which has a trainable parameter
C7_Witness ==
  /\ pc = "grad_reduce"
  /\ Len(tapes) = 2
  /\ \A p \in 1..Len(tapes) : NumTrainable(p) = 0
  /\ grad.gradient_tapes = <<>>
  /\ device_calls[2].tapes = <<>>

\* C8: grad_fn at nesting depth n returns, for a per-tape result carrying k
\* ArrayBox layers, a value carrying k - n layers (none when k < n), for
\* plain results and None entries too.
C8_StripsNLayers ==
  /\ (pc = "grad_raised") => (grad.out = DeviceError)
  /\ (pc = "grad_returned") =>
       \A p \in 1..Len(grad.vjp) :
         /\ Layers(grad.out.value[p]) =
              (IF Layers(grad.vjp[p]) >= n THEN Layers(grad.vjp[p]) - n ELSE 0)
         /\ (grad.vjp[p] = None) => (grad.out.value[p] = None)

\* ---- direct calls
\* C10: get_trainable_params(tape) returns (S, P): P the tape's parameters
\* in index order, unconverted, S the positions whose value is tagged
\* requires_grad = True or is an ArrayBox; the tape is left as it was.
\* [tensor(requires_grad=True), plain, tensor(requires_grad=True)] gives
\* S = {0, 2}.
C10_TrainableSetAndParams ==
  (call.kind = "get_trainable_params") =>
    LET S == call.value[1]
        P == call.value[2]
    IN  /\ Len(P) = Len(call.tape._par_info)
        /\ \A k \in 1..Len(P) : P[k].val = k /\ P[k] \in PureValues(k)
        /\ S = Trainable(P)
        /\ \A k \in 1..Len(P) :
             (P[k].kind = "ndarray" \/ (P[k].kind = "tensor" /\ ~P[k].requires_grad)) =>
               (k - 1) \notin S
        /\ (P = <<Tensor(1, TRUE), Plain(2), Tensor(3, TRUE)>>) => (S = {0, 2})
        /\ tape[1] = call.tape

\* the call has been made on the tape of the example, whose
\* trainable_params were empty before
C10_Witness ==
  /\ call.kind = "get_trainable_params"
  /\ call.value[2] = <<Tensor(1, TRUE), Plain(2), Tensor(3, TRUE)>>
  /\ call.value[1] = {0, 2}
  /\ tape[1].trainable_params = {}

\* the value under every ArrayBox layer of v
RECURSIVE Innermost(_)
Innermost(v) == IF v.kind = "ArrayBox" THEN Innermost(v._value) ELSE v

\* C11, as stated: convert_to_numpy(values) returns a sequence of the same
\* length and order in which every entry is a plain value, neither a tensor
\* nor an ArrayBox, with the numeric content of its input: a tensor gives
\* its array, an ArrayBox of any depth and any innermost value is unwrapped
\* to that innermost value, anything else passes through as the same
\* object; the input sequence and its elements are as they were.
C11_ConvertYieldsPlainValues ==
  (call.kind = "convert_to_numpy") =>
    /\ Len(call.value) = Len(call.tensors)
    /\ \A k \in 1..Len(call.tensors) :
         LET t == call.tensors[k]
             u == call.value[k]
         IN  /\ IsPlainValue(u)
             /\ u.val = t.val
             /\ IsTensor(t) => u = numpy(t)
             /\ IsArrayBox(t) => u.val = Innermost(t).val
             /\ (~IsTensor(t) /\ ~IsArrayBox(t)) => u = t
    /\ tape_params(tape[1]) = call.tensors

\* C11, the part that holds: same length and order, a tensor gives its
\* array, an ArrayBox gives its innermost value as that value is (a tensor
\* stays a tensor), anything else passes through; the input is as it was.
C11_ConvertUnwrapsToInnermost ==
  (call.kind = "convert_to_numpy") =>
    /\ Len(call.value) = Len(call.tensors)
    /\ \A k \in 1..Len(call.tensors) :
         LET t == call.tensors[k]
             u == call.value[k]
         IN  /\ u.val = t.val
             /\ ~IsArrayBox(u)
             /\ IsTensor(t) => u = numpy(t)
             /\ IsArrayBox(t) => u = Innermost(t)
             /\ (~IsTensor(t) /\ ~IsArrayBox(t)) => u = t
             /\ IsPlainValue(u) <=> ~(IsArrayBox(t) /\ IsTensor(Innermost(t)))
    /\ tape_params(tape[1]) = call.tensors

\* ---- release order
\* C13: the UnwrapTape scopes of one forward batch execution are released
\* in the reverse order of their entry; so when batch execution has
\* returned or raised, every tape, also one standing at several positions
\* of the batch (whose later scopes captured already unwrapped values as
\* their originals), holds the parameter objects it held before the call.
C13_ReverseReleaseRestoresOriginals ==
  /\ (pc = "exit") =>
       /\ Len(stack) + Len(closed) = Len(tapes)
       /\ \A k \in 1..Len(stack) : stack[k].tape = tapes[k]
  /\ \A k \in 1..Len(closed) :
       LET pos == Len(tapes) + 1 - k
       IN  /\ closed[k].tape = tapes[pos]
           /\ tape_params(closed[k].exit) = tape_params(closed[k].entry)
           /\ (\A j \in 1..(pos - 1) : tapes[j] # tapes[pos]) =>
                tape_params(closed[k].exit) = tape_params(pre[tapes[pos]])
  /\ (pc \in {"returned", "raised"}) =>
       /\ Len(closed) = Len(tapes)
       /\ \A t \in TapeIds :
            /\ tape_params(tape[t]) = tape_params(pre[t])
            /\ tape[t].ops = pre[t].ops

\* batch execution has returned on a batch holding the same tape twice,
\* the tape has a parameter that unwrapping changes, and the scope entered
\* second (released first) had captured the unwrapped values
C13_Witness ==
  /\ pc = "returned"
  /\ Len(tapes) = 2
  /\ tapes[1] = tapes[2]
  /\ Len(closed) = 2
  /\ tape_params(closed[1].entry) # tape_params(pre[tapes[1]])
  /\ tape_params(closed[1].exit) # tape_params(pre[tapes[1]])
  /\ tape_params(closed[2].exit) = tape_params(pre[tapes[1]])

\* ---- Molecule
\* C12: constructing a Molecule with invalid inputs fails with a ValueError
\* and yields no molecule: a basis set name other than "sto-3g" is
\* rejected with the message that names the only supported basis set, a
\* symbol outside the supported elements is rejected as not supported
\* (with both invalid, one of the two errors is raised).
C12_InvalidMoleculeIsRejected ==
  (call.kind = "Molecule()") =>
    LET bad_basis == call.basis_name # "sto-3g"
        bad_atoms == {call.symbols[k] : k \in 1..Len(call.symbols)} \ {"H", "O", "F"}
        out == call.value
    IN  /\ (bad_basis \/ bad_atoms # {}) =>
             /\ out.kind = "error"
             /\ out.type = "ValueError"
        /\ (bad_basis /\ bad_atoms = {}) => out = BasisError
        /\ (~bad_basis /\ bad_atoms # {}) =>
             /\ out.message = "are not supported"
             /\ out.atoms = bad_atoms
        /\ (bad_basis /\ bad_atoms # {}) =>
             \/ out = BasisError
             \/ out.message = "are not supported" /\ out.atoms = bad_atoms

\* the construction of test_basis_error has been made and has failed:
\* Molecule(["H", "F"], geometry, basis_name="6-31g")
C12_Witness ==
  /\ call.kind = "Molecule()"
  /\ call.symbols = <<"H", "F">>
  /\ call.basis_name = "6-31g"
  /\ call.charge = 0 /\ call.mult = 1
  /\ call.value = BasisError

====
